---- MODULE Spec2Model ----
(***************************************************************************)
(* A model of the smart pointers of the repository:                        *)
(*   pointers/src/refcell.rs      MyRefCell, RefState, Ref, RefMut         *)
(*   pointers/src/rc.rs           MyRc, RcInner                            *)
(*   pointers/src/cell.rs         MyCell                                   *)
(*   send-and-sync/src/sync.rs    MyCounter                                *)
(* Each component has its own specification; the variables of the other    *)
(* components stay at their initial value under it.                        *)
(***************************************************************************)
EXTENDS Integers, Sequences, FiniteSets, TLC

(* ------------------------------ bounds --------------------------------- *)

\* Width of usize in the model.  The counters of refcell.rs and rc.rs are
\* usize and are incremented without a check; the width is scaled down so
\* that the largest value is reachable.
UsizeBits == 3

\* Number of places (local variables) that can hold the result of a borrow
\* or borrow_mut call at one time.  A live Ref or RefMut occupies one word
\* of memory, so fewer than USIZE_MAX of them can be live together:
\* MaxHandles < USIZE_MAX.
MaxHandles == 3

\* Number of places that can hold a MyRc handle at one time; a live MyRc
\* occupies one word of memory: MaxRc < USIZE_MAX.
MaxRc == 4

\* Deallocations of the block that are told apart (a second one is a double free).
MaxDeallocs == 2

\* Number of distinct values of the wrapped type T.
NumValues == 2

\* Number of handles that a program obtains from one MyRefCell before it ends.
MaxAcquire == 3

\* Number of set and get calls on a MyCell that are followed.
MaxCalls == 4

\* Width of i32 in the model (sign bit included), scaled down like UsizeBits.
I32Bits == 4

\* Number of threads the test spawns (100 in tests::my_counter);
\* NThreads <= I32_MAX.
NThreads == 3

\* Worker threads that call increment repeatedly (NWorkers <= NThreads), and
\* the calls of increment they make beyond the I32_MAX calls that bring the
\* count to its maximum.
NWorkers == 2

ExtraCalls == 2

USIZE_MAX == 2^UsizeBits - 1

I32_MAX == 2^(I32Bits - 1) - 1

I32_MIN == 0 - 2^(I32Bits - 1)

Values == 1..NumValues

VARIABLES
    overflow_checks,  \* the build: TRUE = overflow checks on (debug profile)
    state,            \* MyRefCell.state : Cell<RefState>
    slots,            \* what each place holds: an Option<Ref>/Option<RefMut> or nothing
    rf_pc,            \* "running", "unwinding" (after a panic) or "aborted"
    rf_ret,           \* the last call on the cell: operation, result, state before,
                      \* number of live handles before
    rf_acq,           \* how many handles borrow and borrow_mut have returned
    rf_rel,           \* how many handles were released by their Drop
    inner,            \* the control block RcInner: value and ref_count
    rc_block,         \* "allocated" or "freed" (or "none" while MyRc is not in use)
    rc_slots,         \* the places that can hold a MyRc handle to the block
    deallocs,         \* how often the block was deallocated
    rc_v,             \* the value that was passed to MyRc::new
    rc_pc,            \* "running", "unwinding" (after a panic) or "aborted"
    rc_ret,           \* the last operation on a handle: operation, handle, result,
                      \* ref_count before, number of live handles before
    cell_value,       \* MyCell.value : UnsafeCell<T>
    cell_log,         \* the calls made on the cell so far, with what get returned
    count,            \* MyCounter.count : the i32 inside the Mutex
    mutex,            \* the thread that holds the Mutex, or Free
    poisoned,         \* the Mutex is poisoned: a thread panicked while holding it
    ct_pc,            \* where each spawned thread is in MyCounter::increment
    ct_tmp,           \* the value each thread loaded for *count += 1
    main_pc,          \* where the test's main thread is
    main_i,           \* the main thread's loop counter (spawn, then join)
    result,           \* what MyCounter::get returned to the main thread: <<>> before
                      \* the call, <<v>> after it
    ct_calls          \* the calls of increment the worker threads have started

rf_vars == <<state, slots, rf_pc, rf_ret>>

scope_vars == <<rf_acq, rf_rel>>

rc_vars == <<inner, rc_block, rc_slots, deallocs, rc_v, rc_pc, rc_ret>>

cell_vars == <<cell_value, cell_log>>

ct_vars == <<count, mutex, poisoned, ct_pc, ct_tmp, main_pc, main_i, result>>

loop_vars == <<ct_calls>>

(* ------------------------------ RefState ------------------------------- *)

Unshared == [tag |-> "Unshared", n |-> 0]

Shared(n) == [tag |-> "Shared", n |-> n]

Exclusive == [tag |-> "Exclusive", n |-> 0]

RefState == {Unshared, Exclusive} \cup {Shared(n) : n \in 0..USIZE_MAX}

Handles == 1..MaxHandles

(* --------------------------- MyRefCell --------------------------------- *)

\* MyRefCell::new: the state of a fresh cell.
MyRefCell_new == Unshared

\* Mutant: a refused borrow that still counts a reader.
borrow_counts_refused(s, checks) ==
    CASE s.tag = "Unshared"  -> [state |-> Shared(1), ret |-> "Ref"]
      [] s.tag = "Shared"    -> [state |-> Shared((s.n + 1) % (USIZE_MAX + 1)), ret |-> "Ref"]
      [] s.tag = "Exclusive" -> [state |-> Shared(1), ret |-> "None"]

\* MyRefCell::borrow: the new state and what is returned.  count + 1 is a
\* usize addition: at USIZE_MAX it panics with overflow checks and wraps without.
borrow(s, checks) ==
    CASE s.tag = "Unshared"  -> [state |-> Shared(1), ret |-> "Ref"]
      [] s.tag = "Shared"    -> IF s.n + 1 > USIZE_MAX
                                THEN IF checks
                                     THEN [state |-> s, ret |-> "Panic"]
                                     ELSE [state |-> Shared((s.n + 1) % (USIZE_MAX + 1)),
                                           ret |-> "Ref"]
                                ELSE [state |-> Shared(s.n + 1), ret |-> "Ref"]
      [] s.tag = "Exclusive" -> [state |-> s, ret |-> "None"]

\* Mutant: borrow_mut granted while readers are live.
borrow_mut_ignores_shared(s) ==
    IF s.tag \in {"Unshared", "Shared"}
    THEN [state |-> Exclusive, ret |-> "RefMut"]
    ELSE [state |-> s, ret |-> "None"]

\* MyRefCell::borrow_mut: the new state and what is returned.
borrow_mut(s) ==
    IF s = Unshared
    THEN [state |-> Exclusive, ret |-> "RefMut"]
    ELSE [state |-> s, ret |-> "None"]

\* Mutant: the last reader leaves the cell at Shared(0).
drop_Ref_no_unshare(s, checks) ==
    CASE s.tag \in {"Exclusive", "Unshared"} -> [state |-> s, ret |-> "Panic"]
      [] s.tag = "Shared" /\ s.n = 0         -> [state |-> s, ret |-> "Panic"]
      [] OTHER                               -> [state |-> Shared(s.n - 1), ret |-> "()"]

\* impl Drop for Ref: unreachable!() panics; n - 1 on Shared(0) underflows.
drop_Ref(s, checks) ==
    CASE s.tag \in {"Exclusive", "Unshared"} -> [state |-> s, ret |-> "Panic"]
      [] s = Shared(1)                       -> [state |-> Unshared, ret |-> "()"]
      [] s.tag = "Shared" /\ s.n = 0         ->
            IF checks THEN [state |-> s, ret |-> "Panic"]
                      ELSE [state |-> Shared(USIZE_MAX), ret |-> "()"]
      [] OTHER                               -> [state |-> Shared(s.n - 1), ret |-> "()"]

\* Mutant: a RefMut whose drop leaves the cell Exclusive.
drop_RefMut_keeps_exclusive(s) == [state |-> s, ret |-> "()"]

\* impl Drop for RefMut.
drop_RefMut(s) ==
    IF s = Exclusive
    THEN [state |-> Unshared, ret |-> "()"]
    ELSE [state |-> s, ret |-> "Panic"]

\* Dropping an Option<Ref> or Option<RefMut> that is None: no Drop impl runs.
drop_None(s) == [state |-> s, ret |-> "()"]

\* The handles that are live: the places that hold Some(Ref) or Some(RefMut).
LiveRef == {h \in Handles : slots[h] = "Ref"}

LiveRefMut == {h \in Handles : slots[h] = "RefMut"}

Live == LiveRef \cup LiveRefMut

AfterPanic(pc) == IF pc = "running" THEN "unwinding" ELSE "aborted"

RefCellInit ==
    /\ state = MyRefCell_new
    /\ slots = [h \in Handles |-> "empty"]
    /\ rf_pc = "running"
    /\ rf_ret = [op |-> "new", res |-> "()", pre |-> MyRefCell_new, live |-> 0]

\* let place_h = cell.borrow();
Borrow(h) ==
    /\ rf_pc = "running"
    /\ slots[h] = "empty"
    /\ LET r == borrow(state, overflow_checks) IN
        /\ state' = r.state
        /\ slots' = [slots EXCEPT ![h] = IF r.ret = "Panic" THEN "empty" ELSE r.ret]
        /\ rf_pc' = IF r.ret = "Panic" THEN AfterPanic(rf_pc) ELSE rf_pc
        /\ rf_ret' = [op |-> "borrow", res |-> r.ret, pre |-> state,
                    live |-> Cardinality(Live)]

\* let place_h = cell.borrow_mut();
BorrowMut(h) ==
    /\ rf_pc = "running"
    /\ slots[h] = "empty"
    /\ LET r == borrow_mut(state) IN
        /\ state' = r.state
        /\ slots' = [slots EXCEPT ![h] = r.ret]
        /\ rf_pc' = rf_pc
        /\ rf_ret' = [op |-> "borrow_mut", res |-> r.ret, pre |-> state,
                    live |-> Cardinality(Live)]

\* place_h goes out of scope (also while a panic unwinds the stack).
Drop(h) ==
    /\ rf_pc \in {"running", "unwinding"}
    /\ slots[h] # "empty"
    /\ LET r == CASE slots[h] = "Ref"    -> drop_Ref(state, overflow_checks)
                  [] slots[h] = "RefMut" -> drop_RefMut(state)
                  [] slots[h] = "None"   -> drop_None(state) IN
        /\ state' = r.state
        /\ slots' = [slots EXCEPT ![h] = "empty"]
        /\ rf_pc' = IF r.ret = "Panic" THEN AfterPanic(rf_pc) ELSE rf_pc
        /\ rf_ret' = [op |-> "drop", res |-> slots[h], pre |-> state,
                    live |-> Cardinality(Live)]

\* std::mem::forget(place_h): the handle is gone and its Drop never runs.
Forget(h) ==
    /\ rf_pc = "running"
    /\ slots[h] \in {"Ref", "RefMut"}
    /\ slots' = [slots EXCEPT ![h] = "empty"]
    /\ rf_ret' = [op |-> "forget", res |-> slots[h], pre |-> state,
                    live |-> Cardinality(Live)]
    /\ UNCHANGED <<state, rf_pc>>

\* A program that holds the results of borrow and borrow_mut in scopes: it
\* obtains at most MaxAcquire handles, and counts them.
ScopeInit ==
    /\ rf_acq = 0
    /\ rf_rel = 0

ScopedBorrow(h) ==
    /\ rf_acq < MaxAcquire
    /\ Borrow(h)
    /\ rf_acq' = IF slots'[h] = "Ref" THEN rf_acq + 1 ELSE rf_acq
    /\ rf_rel' = rf_rel

ScopedBorrowMut(h) ==
    /\ rf_acq < MaxAcquire
    /\ BorrowMut(h)
    /\ rf_acq' = IF slots'[h] = "RefMut" THEN rf_acq + 1 ELSE rf_acq
    /\ rf_rel' = rf_rel

\* The scope that holds place_h ends: by a normal return, an early exit or
\* while a panic unwinds.
ScopedDrop(h) ==
    /\ Drop(h)
    /\ rf_rel' = IF slots[h] \in {"Ref", "RefMut"} THEN rf_rel + 1 ELSE rf_rel
    /\ rf_acq' = rf_acq

\* The code that holds the handles panics, as in cell.borrow_mut().unwrap()
\* on a None: the stack unwinds and no further call is made.
CallerPanic ==
    /\ rf_pc = "running"
    /\ rf_pc' = "unwinding"
    /\ rf_ret' = [op |-> "panic", res |-> "()", pre |-> state,
                  live |-> Cardinality(Live)]
    /\ UNCHANGED <<state, slots, rf_acq, rf_rel>>

RefCellParked ==
    /\ state = Unshared
    /\ slots = [h \in Handles |-> "empty"]
    /\ rf_pc = "running"
    /\ rf_ret = [op |-> "none", res |-> "()", pre |-> Unshared, live |-> 0]

(* ------------------------------- MyRc ---------------------------------- *)

RcHandles == 1..MaxRc

\* The handles that are live.
LiveRc == {h \in RcHandles : rc_slots[h] = "MyRc"}

\* Mutant: a block that starts with a count of 0.
MyRc_new_zero(v) == [value |-> v, ref_count |-> 0]

\* MyRc::new: the control block that is allocated.
MyRc_new(v) == [value |-> v, ref_count |-> 1]

\* Mutant: a clone that does not count itself.
clone_no_count(in, checks) == [inner |-> in, ret |-> "MyRc"]

\* Mutant: a clone that resets the wrapped value.
clone_resets_value(in, checks) ==
    [inner |-> [value |-> 1, ref_count |-> (in.ref_count + 1) % (USIZE_MAX + 1)],
     ret |-> "MyRc"]

\* impl Clone for MyRc: ref_count + 1 is a usize addition: at USIZE_MAX it
\* panics with overflow checks and wraps without.
clone(in, checks) ==
    IF in.ref_count + 1 > USIZE_MAX
    THEN IF checks
         THEN [inner |-> in, ret |-> "Panic"]
         ELSE [inner |-> [in EXCEPT !.ref_count = (in.ref_count + 1) % (USIZE_MAX + 1)],
               ret |-> "MyRc"]
    ELSE [inner |-> [in EXCEPT !.ref_count = in.ref_count + 1], ret |-> "MyRc"]

\* impl Deref for MyRc.
deref(in) == in.value

\* Mutant: a drop that frees the block one handle early.
drop_MyRc_frees_early(in, checks) ==
    IF in.ref_count <= 2
    THEN [inner |-> in, free |-> TRUE, ret |-> "()"]
    ELSE [inner |-> [in EXCEPT !.ref_count = in.ref_count - 1], free |-> FALSE, ret |-> "()"]

\* impl Drop for MyRc: ref_count - 1 on a count of 0 underflows.
drop_MyRc(in, checks) ==
    IF in.ref_count = 1
    THEN [inner |-> in, free |-> TRUE, ret |-> "()"]
    ELSE IF in.ref_count = 0
         THEN IF checks
              THEN [inner |-> in, free |-> FALSE, ret |-> "Panic"]
              ELSE [inner |-> [in EXCEPT !.ref_count = USIZE_MAX], free |-> FALSE, ret |-> "()"]
         ELSE [inner |-> [in EXCEPT !.ref_count = in.ref_count - 1], free |-> FALSE, ret |-> "()"]

\* What inner.as_ref() can yield: the block while it is allocated; reading a
\* block that was freed is undefined behaviour and can yield anything.  Only
\* the field that the caller reads is drawn.
Read_ref_count ==
    IF rc_block = "allocated" THEN {inner}
    ELSE {[inner EXCEPT !.ref_count = c] : c \in 0..USIZE_MAX}

Read_value ==
    IF rc_block = "allocated" THEN {inner}
    ELSE {[inner EXCEPT !.value = v] : v \in Values}

\* let place_1 = MyRc::new(v);
RcInit ==
    /\ \E v \in Values : inner = MyRc_new(v) /\ rc_v = v
    /\ rc_block = "allocated"
    /\ rc_slots = [h \in RcHandles |-> IF h = 1 THEN "MyRc" ELSE "empty"]
    /\ deallocs = 0
    /\ rc_pc = "running"
    /\ rc_ret = [op |-> "new", h |-> 1, res |-> "MyRc", pre |-> 0, live |-> 0]

RcParked ==
    /\ inner = [value |-> 1, ref_count |-> 0]
    /\ rc_v = 1
    /\ rc_block = "none"
    /\ rc_slots = [h \in RcHandles |-> "empty"]
    /\ deallocs = 0
    /\ rc_pc = "running"
    /\ rc_ret = [op |-> "none", h |-> 1, res |-> "()", pre |-> 0, live |-> 0]

\* let place_g = place_h.clone();
RcClone(h, g) ==
    /\ rc_pc = "running"
    /\ rc_slots[h] = "MyRc"
    /\ rc_slots[g] = "empty"
    /\ \E in \in Read_ref_count :
        LET r == clone(in, overflow_checks) IN
        /\ inner' = IF rc_block = "allocated" THEN r.inner ELSE inner
        /\ rc_slots' = [rc_slots EXCEPT ![g] = IF r.ret = "Panic" THEN "empty" ELSE r.ret]
        /\ rc_pc' = IF r.ret = "Panic" THEN AfterPanic(rc_pc) ELSE rc_pc
        /\ rc_ret' = [op |-> "clone", h |-> h, res |-> r.ret, pre |-> in.ref_count,
                      live |-> Cardinality(LiveRc)]
    /\ UNCHANGED <<rc_block, deallocs, rc_v>>

\* *place_h
RcDeref(h) ==
    /\ rc_pc = "running"
    /\ rc_slots[h] = "MyRc"
    /\ \E in \in Read_value :
        rc_ret' = [op |-> "deref", h |-> h, res |-> deref(in), pre |-> in.ref_count,
                   live |-> Cardinality(LiveRc)]
    /\ UNCHANGED <<inner, rc_block, rc_slots, deallocs, rc_v, rc_pc>>

\* place_h goes out of scope (also while a panic unwinds the stack).
RcDrop(h) ==
    /\ rc_pc \in {"running", "unwinding"}
    /\ rc_slots[h] = "MyRc"
    /\ \E in \in Read_ref_count :
        LET r == drop_MyRc(in, overflow_checks) IN
        /\ r.free => deallocs < MaxDeallocs
        /\ inner' = IF rc_block = "allocated" THEN r.inner ELSE inner
        /\ rc_block' = IF r.free THEN "freed" ELSE rc_block
        /\ deallocs' = IF r.free THEN deallocs + 1 ELSE deallocs
        /\ rc_pc' = IF r.ret = "Panic" THEN AfterPanic(rc_pc) ELSE rc_pc
        /\ rc_ret' = [op |-> "drop", h |-> h, res |-> IF r.free THEN "freed" ELSE r.ret,
                      pre |-> in.ref_count, live |-> Cardinality(LiveRc)]
    /\ rc_slots' = [rc_slots EXCEPT ![h] = "empty"]
    /\ UNCHANGED rc_v

\* std::mem::forget(place_h): the handle is gone and its Drop never runs.
RcForget(h) ==
    /\ rc_pc = "running"
    /\ rc_slots[h] = "MyRc"
    /\ rc_slots' = [rc_slots EXCEPT ![h] = "empty"]
    /\ rc_ret' = [op |-> "forget", h |-> h, res |-> "()", pre |-> inner.ref_count,
                  live |-> Cardinality(LiveRc)]
    /\ UNCHANGED <<inner, rc_block, deallocs, rc_v, rc_pc>>

(* ------------------------------ MyCell --------------------------------- *)

\* MyCell::new: the content of the UnsafeCell.
MyCell_new(v) == v

\* MyCell::set: the content after *self.value.get() = value.
set(c, v) == v

\* Mutant: a get that takes the value and leaves a default behind.
get_takes(c) == [value |-> 1, ret |-> c]

\* MyCell::get: the content after the call and the copy that is returned.
get(c) == [value |-> c, ret |-> c]

\* The references through which the tests call the cell: cell and &cell.
CellRefs == {"cell", "cell_ref"}

CellInit ==
    \E v \in Values :
        /\ cell_value = MyCell_new(v)
        /\ cell_log = <<[op |-> "new", via |-> "cell", v |-> v]>>

CellParked ==
    /\ cell_value = 1
    /\ cell_log = <<>>

\* via.set(v)
CellSet(via, v) ==
    /\ Len(cell_log) <= MaxCalls
    /\ cell_value' = set(cell_value, v)
    /\ cell_log' = Append(cell_log, [op |-> "set", via |-> via, v |-> v])

\* via.get()
CellGet(via) ==
    /\ Len(cell_log) <= MaxCalls
    /\ LET r == get(cell_value) IN
        /\ cell_value' = r.value
        /\ cell_log' = Append(cell_log, [op |-> "get", via |-> via, v |-> r.ret])

(* ----------------------------- MyCounter ------------------------------- *)

Free == 0

Main == 0 - 1

Threads == 1..NThreads

\* MyCounter::new: the i32 inside the Mutex.
MyCounter_new == 0

\* The test up to its first spawn: let counter = Arc::new(MyCounter::new()).
CounterInit ==
    /\ count = MyCounter_new
    /\ mutex = Free
    /\ poisoned = FALSE
    /\ ct_pc = [t \in Threads |-> "unspawned"]
    /\ ct_tmp = [t \in Threads |-> 0]
    /\ main_pc = "spawn"
    /\ main_i = 0
    /\ result = <<>>

CounterParked ==
    /\ count = 0
    /\ mutex = Free
    /\ poisoned = FALSE
    /\ ct_pc = [t \in Threads |-> "unspawned"]
    /\ ct_tmp = [t \in Threads |-> 0]
    /\ main_pc = "none"
    /\ main_i = 0
    /\ result = <<>>

\* for _ in 0..100 { handles.push(thread::spawn(move || counter_ref.increment())) }
Spawn ==
    /\ main_pc = "spawn"
    /\ IF main_i < NThreads
       THEN /\ ct_pc' = [ct_pc EXCEPT ![main_i + 1] = "lock"]
            /\ main_i' = main_i + 1
            /\ main_pc' = main_pc
       ELSE /\ main_pc' = "join"
            /\ main_i' = 0
            /\ ct_pc' = ct_pc
    /\ UNCHANGED <<count, mutex, poisoned, ct_tmp, result>>

\* Mutant: a lock that does not wait for the holder.
Lock_no_exclusion(t) ==
    /\ ct_pc[t] = "lock"
    /\ mutex' = t
    /\ ct_pc' = [ct_pc EXCEPT ![t] = "load"]
    /\ UNCHANGED <<count, poisoned, ct_tmp, main_pc, main_i, result>>

\* Mutant: a lock that is taken even when the Mutex is poisoned.
Lock_ignores_poison(t) ==
    /\ ct_pc[t] = "lock"
    /\ mutex = Free
    /\ mutex' = t
    /\ ct_pc' = [ct_pc EXCEPT ![t] = "load"]
    /\ UNCHANGED <<count, poisoned, ct_tmp, main_pc, main_i, result>>

\* increment: self.count.lock().unwrap().  lock blocks until the Mutex is
\* free; on a poisoned Mutex it returns Err, unwrap panics and the guard
\* inside the error is dropped.
Lock(t) ==
    /\ ct_pc[t] = "lock"
    /\ mutex = Free
    /\ IF poisoned
       THEN mutex' = mutex /\ ct_pc' = [ct_pc EXCEPT ![t] = "panicked"]
       ELSE mutex' = t /\ ct_pc' = [ct_pc EXCEPT ![t] = "load"]
    /\ UNCHANGED <<count, poisoned, ct_tmp, main_pc, main_i, result>>

\* increment: *count += 1, the read through the guard.
Load(t) ==
    /\ ct_pc[t] = "load"
    /\ ct_tmp' = [ct_tmp EXCEPT ![t] = count]
    /\ ct_pc' = [ct_pc EXCEPT ![t] = "store"]
    /\ UNCHANGED <<count, mutex, poisoned, main_pc, main_i, result>>

\* increment: *count += 1, the addition and the write through the guard.  At
\* I32_MAX the addition panics with overflow checks (the guard is dropped
\* while panicking, which poisons the Mutex) and wraps without.  The value
\* read is a temporary that is dead after this step.
Store(t) ==
    /\ ct_pc[t] = "store"
    /\ IF ct_tmp[t] + 1 > I32_MAX /\ overflow_checks
       THEN /\ poisoned' = TRUE
            /\ mutex' = IF mutex = t THEN Free ELSE mutex
            /\ ct_pc' = [ct_pc EXCEPT ![t] = "panicked"]
            /\ count' = count
       ELSE /\ count' = IF ct_tmp[t] + 1 > I32_MAX THEN I32_MIN ELSE ct_tmp[t] + 1
            /\ ct_pc' = [ct_pc EXCEPT ![t] = "unlock"]
            /\ UNCHANGED <<mutex, poisoned>>
    /\ ct_tmp' = [ct_tmp EXCEPT ![t] = 0]
    /\ UNCHANGED <<main_pc, main_i, result>>

\* Mutant: the guard is leaked, so that the Mutex stays locked.
Unlock_leaks_guard(t) ==
    /\ ct_pc[t] = "unlock"
    /\ ct_pc' = [ct_pc EXCEPT ![t] = "done"]
    /\ UNCHANGED <<count, mutex, poisoned, ct_tmp, main_pc, main_i, result>>

\* increment returns: the MutexGuard goes out of scope.
Unlock(t) ==
    /\ ct_pc[t] = "unlock"
    /\ mutex' = IF mutex = t THEN Free ELSE mutex
    /\ ct_pc' = [ct_pc EXCEPT ![t] = "done"]
    /\ UNCHANGED <<count, poisoned, ct_tmp, main_pc, main_i, result>>

\* for handle in handles { handle.join().unwrap(); }
Join ==
    /\ main_pc = "join"
    /\ IF main_i < NThreads
       THEN /\ ct_pc[main_i + 1] \in {"done", "panicked"}
            /\ IF ct_pc[main_i + 1] = "done"
               THEN main_i' = main_i + 1 /\ main_pc' = main_pc
               ELSE main_i' = main_i /\ main_pc' = "panicked"
       ELSE /\ main_pc' = "get_lock"
            /\ main_i' = main_i
    /\ UNCHANGED <<count, mutex, poisoned, ct_pc, ct_tmp, result>>

\* get: self.count.lock().unwrap()
GetLock ==
    /\ main_pc = "get_lock"
    /\ mutex = Free
    /\ IF poisoned
       THEN mutex' = mutex /\ main_pc' = "panicked"
       ELSE mutex' = Main /\ main_pc' = "get_read"
    /\ UNCHANGED <<count, poisoned, ct_pc, ct_tmp, main_i, result>>

\* get: *count, then the MutexGuard goes out of scope.
GetRead ==
    /\ main_pc = "get_read"
    /\ result' = <<count>>
    /\ mutex' = IF mutex = Main THEN Free ELSE mutex
    /\ main_pc' = "done"
    /\ UNCHANGED <<count, poisoned, ct_pc, ct_tmp, main_i>>

(* ---------------- MyCounter called repeatedly ------------------------- *)

Workers == 1..NWorkers

\* The calls of increment the program makes: enough to pass I32_MAX.
MaxIncrements == I32_MAX + ExtraCalls

\* A program that shares one MyCounter: every worker thread is in its first
\* call of increment, the main thread in a call of get.
LoopInit ==
    /\ count = MyCounter_new
    /\ mutex = Free
    /\ poisoned = FALSE
    /\ ct_pc = [t \in Threads |-> IF t \in Workers THEN "lock" ELSE "unspawned"]
    /\ ct_tmp = [t \in Threads |-> 0]
    /\ ct_calls = NWorkers
    /\ main_pc = "get_lock"
    /\ main_i = 0
    /\ result = <<>>

LoopParked == ct_calls = 0

\* counter_ref.increment() once more, after the previous call has returned.
WorkerAgain(t) ==
    /\ ct_pc[t] = "done"
    /\ ct_calls < MaxIncrements
    /\ ct_calls' = ct_calls + 1
    /\ ct_pc' = [ct_pc EXCEPT ![t] = "lock"]
    /\ UNCHANGED <<count, mutex, poisoned, ct_tmp, main_pc, main_i, result>>

LoopOnly == UNCHANGED <<overflow_checks, rf_vars, scope_vars, rc_vars, cell_vars>>

\* The steps of thread t inside a call of increment.
InIncrement(t) ==
    /\ Lock(t) \/ Load(t) \/ Store(t) \/ Unlock(t)
    /\ UNCHANGED ct_calls
    /\ LoopOnly

\* The steps of the main thread inside a call of get.
InGet ==
    /\ GetLock \/ GetRead
    /\ UNCHANGED ct_calls
    /\ LoopOnly

(* --------------------------- specifications ---------------------------- *)

vars == <<overflow_checks, rf_vars, scope_vars, rc_vars, cell_vars, ct_vars, loop_vars>>

RefCellOnly == UNCHANGED <<overflow_checks, scope_vars, rc_vars, cell_vars, ct_vars, loop_vars>>

ScopedOnly == UNCHANGED <<overflow_checks, rc_vars, cell_vars, ct_vars, loop_vars>>

RcOnly == UNCHANGED <<overflow_checks, rf_vars, scope_vars, cell_vars, ct_vars, loop_vars>>

CellOnly == UNCHANGED <<overflow_checks, rf_vars, scope_vars, rc_vars, ct_vars, loop_vars>>

CounterOnly == UNCHANGED <<overflow_checks, rf_vars, scope_vars, rc_vars, cell_vars, loop_vars>>

RefCellNext ==
    \/ \E h \in Handles : Borrow(h) /\ RefCellOnly
    \/ \E h \in Handles : BorrowMut(h) /\ RefCellOnly
    \/ \E h \in Handles : Drop(h) /\ RefCellOnly

RefCellLeakNext ==
    \/ RefCellNext
    \/ \E h \in Handles : Forget(h) /\ RefCellOnly

ScopedNext ==
    \/ \E h \in Handles : ScopedBorrow(h) /\ ScopedOnly
    \/ \E h \in Handles : ScopedBorrowMut(h) /\ ScopedOnly
    \/ \E h \in Handles : ScopedDrop(h) /\ ScopedOnly
    \/ CallerPanic /\ ScopedOnly

RcNext ==
    \/ \E h, g \in RcHandles : RcClone(h, g) /\ RcOnly
    \/ \E h \in RcHandles : RcDeref(h) /\ RcOnly
    \/ \E h \in RcHandles : RcDrop(h) /\ RcOnly

RcLeakNext ==
    \/ RcNext
    \/ \E h \in RcHandles : RcForget(h) /\ RcOnly

CellNext ==
    \/ \E via \in CellRefs, v \in Values : CellSet(via, v) /\ CellOnly
    \/ \E via \in CellRefs : CellGet(via) /\ CellOnly

CounterNext ==
    \/ Spawn /\ CounterOnly
    \/ \E t \in Threads : Lock(t) /\ CounterOnly
    \/ \E t \in Threads : Load(t) /\ CounterOnly
    \/ \E t \in Threads : Store(t) /\ CounterOnly
    \/ \E t \in Threads : Unlock(t) /\ CounterOnly
    \/ Join /\ CounterOnly
    \/ GetLock /\ CounterOnly
    \/ GetRead /\ CounterOnly

LoopNext ==
    \/ \E t \in Workers : Lock(t) /\ UNCHANGED ct_calls /\ LoopOnly
    \/ \E t \in Workers : Load(t) /\ UNCHANGED ct_calls /\ LoopOnly
    \/ \E t \in Workers : Store(t) /\ UNCHANGED ct_calls /\ LoopOnly
    \/ \E t \in Workers : Unlock(t) /\ UNCHANGED ct_calls /\ LoopOnly
    \/ \E t \in Workers : WorkerAgain(t) /\ LoopOnly
    \/ GetLock /\ UNCHANGED ct_calls /\ LoopOnly
    \/ GetRead /\ UNCHANGED ct_calls /\ LoopOnly

Init ==
    /\ overflow_checks \in BOOLEAN
    /\ RefCellInit /\ ScopeInit /\ RcParked /\ CellParked /\ CounterParked /\ LoopParked

RcSpecInit ==
    /\ overflow_checks \in BOOLEAN
    /\ RefCellParked /\ ScopeInit /\ RcInit /\ CellParked /\ CounterParked /\ LoopParked

CellSpecInit ==
    /\ overflow_checks = TRUE
    /\ RefCellParked /\ ScopeInit /\ RcParked /\ CellInit /\ CounterParked /\ LoopParked

CounterSpecInit ==
    /\ overflow_checks \in BOOLEAN
    /\ RefCellParked /\ ScopeInit /\ RcParked /\ CellParked /\ CounterInit /\ LoopParked

\* MyRefCell used through borrow, borrow_mut and the drops of what they return.
Spec == Init /\ [][RefCellNext]_vars

\* The same, with handles that may be leaked (std::mem::forget).
SpecLeak == Init /\ [][RefCellLeakNext]_vars

\* A program that ends: it obtains at most MaxAcquire handles, may panic, and
\* every scope that holds a result of borrow or borrow_mut is left.
SpecScoped ==
    /\ Init
    /\ [][ScopedNext]_vars
    /\ \A h \in Handles : WF_vars(ScopedDrop(h) /\ ScopedOnly)

\* One MyRc::new, then clone, deref and drop of the handles.
SpecRc == RcSpecInit /\ [][RcNext]_vars

\* The same, with handles that may be leaked (std::mem::forget).
SpecRcLeak == RcSpecInit /\ [][RcLeakNext]_vars

\* One MyCell::new, then set and get through the references to the cell.
SpecCell == CellSpecInit /\ [][CellNext]_vars

\* tests::my_counter: NThreads threads that each call increment once; the main
\* thread joins them and calls get.
SpecCounter == CounterSpecInit /\ [][CounterNext]_vars

LoopSpecInit ==
    /\ overflow_checks \in BOOLEAN
    /\ RefCellParked /\ ScopeInit /\ RcParked /\ CellParked /\ LoopInit

\* NWorkers threads that call increment again and again, up to MaxIncrements
\* calls in all, while the main thread calls get.
SpecCounterLoop == LoopSpecInit /\ [][LoopNext]_vars

\* The same under a fair scheduler: a thread that is inside a call and can
\* take its next step eventually takes it.
SpecCounterFair ==
    /\ LoopSpecInit
    /\ [][LoopNext]_vars
    /\ \A t \in Workers : WF_vars(InIncrement(t))
    /\ WF_vars(InGet)

(* ----------------------- properties of MyRefCell ----------------------- *)

\* C1: in every reachable state either no RefMut is live (and any number of
\* Ref), or exactly one RefMut is live and no Ref; never a Ref and a RefMut
\* together, never two RefMut.
C1_ReadersXorWriter ==
    \/ LiveRefMut = {}
    \/ Cardinality(LiveRefMut) = 1 /\ LiveRef = {}

\* C1 witness: a RefMut is live and a borrow was just attempted against it.
C1_Witness ==
    /\ LiveRefMut # {}
    /\ rf_ret.op = "borrow"

\* C4: borrow_mut returns None exactly when a Ref or a RefMut is live, for the
\* call the cell would answer now and for the call it answered last; a
\* granted call leaves the state Exclusive.
C4_BorrowMutNoneIffLive ==
    /\ (borrow_mut(state).ret = "None") <=> (Live # {})
    /\ Live = {} => borrow_mut(state) = [state |-> Exclusive, ret |-> "RefMut"]
    /\ rf_ret.op = "borrow_mut" =>
          /\ (rf_ret.res = "None") <=> (rf_ret.live > 0)
          /\ rf_ret.res = "RefMut" => state = Exclusive

\* C4 witness: a borrow_mut was refused while two readers were live.
C4_WitnessRefused ==
    /\ rf_ret.op = "borrow_mut"
    /\ rf_ret.res = "None"
    /\ Cardinality(LiveRef) = 2

\* C5 (as claimed): borrow returns None exactly from Exclusive, turns Unshared
\* into Shared(1) and Shared(n) into Shared(n+1) for every n >= 1 of a usize,
\* returning a Ref.
C5_BorrowCountsUp ==
    rf_ret.op = "borrow" =>
        /\ (rf_ret.res = "None") <=> (rf_ret.pre = Exclusive)
        /\ rf_ret.pre = Unshared => rf_ret.res = "Ref" /\ state = Shared(1)
        /\ (rf_ret.pre.tag = "Shared" /\ rf_ret.pre.n >= 1) =>
              rf_ret.res = "Ref" /\ state = Shared(rf_ret.pre.n + 1)

\* C6: the recorded RefState matches the live handles exactly, and Shared(0)
\* is never reached.
C6_StateMatchesHandles ==
    /\ state # Shared(0)
    /\ (state.tag = "Shared") <=> (LiveRef # {} /\ LiveRefMut = {})
    /\ state.tag = "Shared" => state.n = Cardinality(LiveRef)
    /\ (state = Exclusive) <=> (Cardinality(LiveRefMut) = 1 /\ LiveRef = {})
    /\ (state = Unshared) <=> (Live = {})

\* C6 witness: two readers are left after a third was dropped.
C6_Witness ==
    /\ state = Shared(2)
    /\ rf_ret.op = "drop"
    /\ rf_ret.res = "Ref"

\* C10: a borrow or borrow_mut that returns None leaves the RefState as it was
\* and creates no handle, and dropping the None leaves the state as it was.
C10_RefusedCallChangesNothing ==
    /\ (rf_ret.op \in {"borrow", "borrow_mut"} /\ rf_ret.res = "None") =>
          state = rf_ret.pre /\ Cardinality(Live) = rf_ret.live
    /\ (rf_ret.op = "drop" /\ rf_ret.res = "None") =>
          state = rf_ret.pre /\ Cardinality(Live) = rf_ret.live

\* C10 witness: a None was dropped while two readers were live.
C10_Witness ==
    /\ rf_ret.op = "drop"
    /\ rf_ret.res = "None"
    /\ state = Shared(2)

\* The steps of the RefState that C13 allows.
AllowedStep(s, t) ==
    \/ s = Unshared /\ t = Shared(1)
    \/ s.tag = "Shared" /\ t = Shared(s.n + 1)
    \/ s.tag = "Shared" /\ s.n > 1 /\ t = Shared(s.n - 1)
    \/ s = Shared(1) /\ t = Unshared
    \/ s = Unshared /\ t = Exclusive
    \/ s = Exclusive /\ t = Unshared

\* C13: every change of the RefState is one of the six allowed steps (so never
\* directly between Shared and Exclusive); the drop of a Ref is exactly
\* Shared(1) -> Unshared or Shared(n) -> Shared(n-1), the drop of the RefMut is
\* exactly Exclusive -> Unshared.
C13_OnlyAllowedSteps ==
    [][/\ state' # state => AllowedStep(state, state')
       /\ \A h \in Handles :
            (slots[h] = "Ref" /\ slots'[h] = "empty") =>
                \/ state = Shared(1) /\ state' = Unshared
                \/ state.tag = "Shared" /\ state.n > 1 /\ state' = Shared(state.n - 1)
       /\ \A h \in Handles :
            (slots[h] = "RefMut" /\ slots'[h] = "empty") =>
                state = Exclusive /\ state' = Unshared]_vars

\* C13 witness: the RefMut was dropped, and a reader took the cell after it.
C13_Witness ==
    /\ rf_ret.op = "borrow"
    /\ rf_ret.pre = Unshared
    /\ \E h \in Handles : slots[h] = "None"
    /\ state = Shared(1)

\* C14: the unreachable!() branches are never reached: no panic happens, a
\* live Ref implies Shared(n) with n >= 1, a live RefMut implies Exclusive,
\* and every drop that ran found such a state.
C14_UnreachableNotReached ==
    /\ rf_pc = "running"
    /\ \A h \in LiveRef :
          /\ state.tag = "Shared" /\ state.n >= 1
          /\ drop_Ref(state, overflow_checks).ret # "Panic"
    /\ \A h \in LiveRefMut :
          /\ state = Exclusive
          /\ drop_RefMut(state).ret # "Panic"
    /\ (rf_ret.op = "drop" /\ rf_ret.res = "Ref") =>
          rf_ret.pre.tag = "Shared" /\ rf_ret.pre.n >= 1
    /\ (rf_ret.op = "drop" /\ rf_ret.res = "RefMut") => rf_ret.pre = Exclusive

\* C14 witness: the last Ref was dropped, while a refused Option is still held.
C14_Witness ==
    /\ rf_ret.op = "drop"
    /\ rf_ret.res = "Ref"
    /\ rf_ret.pre = Shared(1)
    /\ \E h \in Handles : slots[h] = "None"

\* C11: every handle that borrow or borrow_mut returned is released exactly
\* once and eventually, on the normal and on the unwinding path: releases
\* never exceed acquisitions, the handles not yet released are the live ones,
\* every live handle is eventually gone, and a cell that is borrowed
\* eventually is Unshared again and stays so once the program has ended.
C11_EveryAcquireReleased ==
    /\ [](rf_rel <= rf_acq /\ rf_acq - rf_rel = Cardinality(Live))
    /\ \A h \in Handles : (slots[h] \in {"Ref", "RefMut"}) ~> (slots[h] = "empty")
    /\ (state # Unshared) ~> (state = Unshared)
    /\ <>[](state = Unshared /\ rf_rel = rf_acq)

\* C11 witness: a panic unwound the stack while handles were live, and all
\* MaxAcquire handles that were obtained have been released.
C11_Witness ==
    /\ rf_pc = "unwinding"
    /\ rf_ret.op = "drop"
    /\ rf_ret.live > 0
    /\ rf_acq = MaxAcquire
    /\ rf_rel = rf_acq
    /\ state = Unshared

(* -------------------------- properties of MyRc ------------------------- *)

\* C2: the control block is deallocated exactly once, by the drop of the last
\* live handle, and never while a handle to it is live.
C2_FreedOnceByLastDrop ==
    /\ deallocs <= 1
    /\ (rc_block = "freed") <=> (deallocs = 1)
    /\ (rc_block = "freed") <=> (LiveRc = {})
    /\ (rc_ret.op = "drop" /\ rc_ret.res = "freed") => rc_ret.live = 1
    /\ (rc_ret.op = "drop" /\ rc_ret.res # "freed") => rc_ret.live > 1

\* C2 witness: the block was freed by the drop of a clone, the original
\* handle having been dropped before.
C2_Witness ==
    /\ rc_block = "freed"
    /\ rc_ret.op = "drop"
    /\ rc_ret.h # 1
    /\ rc_ret.res = "freed"

\* C3: while the block is allocated, ref_count is the number of live handles
\* (at least 1): 1 after new, one more after each clone, one less after each
\* drop of a handle that is not the last.
C3_CountIsLiveHandles ==
    /\ rc_block = "allocated" =>
          inner.ref_count = Cardinality(LiveRc) /\ inner.ref_count >= 1
    /\ rc_ret.op = "new" => inner.ref_count = 1
    /\ rc_ret.op = "clone" =>
          rc_ret.res = "MyRc" /\ inner.ref_count = rc_ret.pre + 1
    /\ (rc_ret.op = "drop" /\ rc_ret.res # "freed") =>
          inner.ref_count = rc_ret.pre - 1

\* C3 witness: a clone was taken from a clone while the original handle was
\* gone, which brought the count to 3.
C3_Witness ==
    /\ rc_ret.op = "clone"
    /\ rc_ret.h # 1
    /\ rc_slots[1] = "empty"
    /\ inner.ref_count = 3

\* C9: every dereference of a live handle yields the value passed to
\* MyRc::new; clone and drop leave the wrapped value as it is.
C9_DerefYieldsValue ==
    /\ rc_ret.op = "deref" => rc_ret.res = rc_v
    /\ rc_block = "allocated" => inner.value = rc_v /\ deref(inner) = rc_v

\* C9 witness: a dereference through a clone, after clones were taken and the
\* original handle was dropped.
C9_Witness ==
    /\ rc_ret.op = "deref"
    /\ rc_ret.h # 1
    /\ rc_slots[1] = "empty"
    /\ Cardinality(LiveRc) >= 2
    /\ rc_v = NumValues

\* C15 (as claimed): clone on a live MyRc never fails: for every ref_count of
\* a usize it returns a handle and raises the count by exactly one.
C15_CloneNeverFails ==
    (rc_ret.op = "clone" /\ rc_block = "allocated" /\ deallocs = 0) =>
        rc_ret.res = "MyRc" /\ inner.ref_count = rc_ret.pre + 1

\* C16: with every handle dropped at most once, drop never runs with a count
\* of 0, takes the decrement branch only with a count >= 2, and never leaves
\* a count below 1.
C16_NoUnderflow ==
    /\ rc_pc = "running"
    /\ rc_block = "allocated" => inner.ref_count >= 1
    /\ rc_ret.op = "drop" => rc_ret.pre >= 1
    /\ (rc_ret.op = "drop" /\ rc_ret.res # "freed") =>
          rc_ret.pre >= 2 /\ inner.ref_count >= 1

\* C16 witness: a drop took the decrement branch with a count of 2.
C16_Witness ==
    /\ rc_ret.op = "drop"
    /\ rc_ret.res # "freed"
    /\ rc_ret.pre = 2
    /\ inner.ref_count = 1

(* ------------------------- properties of MyCell ------------------------ *)

\* The value of the last new or set among the first i - 1 calls of the log.
LastSetBefore(i) ==
    LET js == {j \in 1..(i - 1) : cell_log[j].op \in {"new", "set"}}
        last == CHOOSE j \in js : \A k \in js : k <= j
    IN cell_log[last].v

\* C8: every get returns the value of the most recent preceding set, or of
\* new when no set came before it, and get leaves the stored value as it is.
C8_GetReturnsLastSet ==
    /\ \A i \in 1..Len(cell_log) :
          cell_log[i].op = "get" => cell_log[i].v = LastSetBefore(i)
    /\ cell_value = LastSetBefore(Len(cell_log) + 1)

\* C8 witness: a set through one reference that changed the value, then two
\* gets in a row, the first through the other reference.
C8_Witness ==
    \E i \in 2..(Len(cell_log) - 2) :
        /\ cell_log[i].op = "set"
        /\ cell_log[i].via = "cell_ref"
        /\ cell_log[i].v # LastSetBefore(i)
        /\ cell_log[i + 1].op = "get"
        /\ cell_log[i + 1].via = "cell"
        /\ cell_log[i + 2].op = "get"

(* ------------------------ properties of MyCounter ---------------------- *)

\* C7: after all NThreads threads have called increment once and finished,
\* get returns the initial value 0 plus NThreads.
C7_NoLostIncrement ==
    /\ main_pc = "done" => result = <<0 + NThreads>>
    /\ (\A t \in Threads : ct_pc[t] = "done") => count = 0 + NThreads

\* C7 witness: the main thread has joined every thread and get has returned.
C7_Witness ==
    /\ main_pc = "done"
    /\ \A t \in Threads : ct_pc[t] = "done"
    /\ result # <<>>

(* ------------- properties of MyCounter called repeatedly --------------- *)

Finished ==
    /\ \A t \in Workers : ct_pc[t] \in {"done", "panicked"}
    /\ main_pc \in {"done", "panicked"}

\* C17, as stated: under fair scheduling every call of increment and of get
\* eventually returns, and the lock is free once all calls have finished.
C17_EveryCallReturns ==
    /\ \A t \in Workers : (ct_pc[t] = "lock") ~> (ct_pc[t] = "done")
    /\ (main_pc = "get_lock") ~> (main_pc = "done")
    /\ [](Finished => mutex = Free)

\* C17, amended: under fair scheduling every call of increment and of get
\* eventually ends, by returning or by panicking; the lock is held by a thread
\* exactly while that thread is between its lock() and the end of its call, so
\* it is released on every exit path; and the lock is free once all calls
\* have finished.
C17_EveryCallEnds ==
    /\ \A t \in Workers : (ct_pc[t] = "lock") ~> (ct_pc[t] \in {"done", "panicked"})
    /\ (main_pc = "get_lock") ~> (main_pc \in {"done", "panicked"})
    /\ [](\A t \in Workers : (mutex = t) <=> (ct_pc[t] \in {"load", "store", "unlock"}))
    /\ []((mutex = Main) <=> (main_pc = "get_read"))
    /\ [](Finished => mutex = Free)

\* C17 witness: all calls have ended, the last increments by a panic on the
\* overflow and on the poisoned lock, the get by returning the maximum, and
\* the lock is free.
C17_Witness ==
    /\ Finished
    /\ poisoned
    /\ mutex = Free
    /\ \A t \in Workers : ct_pc[t] = "panicked"
    /\ main_pc = "done"
    /\ result = <<I32_MAX>>

\* C18: once the lock is poisoned, no step changes the count or what get
\* returned, no thread is past its lock(), and every call of increment or get
\* that leaves its lock() ends in a panic.
C18_PoisonedCallsFail ==
    [][poisoned =>
        /\ count' = count
        /\ result' = result
        /\ \A t \in Workers : ct_pc[t] \notin {"load", "store", "unlock"}
        /\ main_pc # "get_read"
        /\ \A t \in Workers :
              (ct_pc[t] = "lock" /\ ct_pc'[t] # "lock") => ct_pc'[t] = "panicked"
        /\ (main_pc = "get_lock" /\ main_pc' # "get_lock") => main_pc' = "panicked"]_vars

\* C18 witness: the lock is poisoned and a later increment and a later get
\* have both ended in a panic.
C18_Witness ==
    /\ poisoned
    /\ main_pc = "panicked"
    /\ \A t \in Workers : ct_pc[t] = "panicked"

====
